---- MODULE Spec2Model ----
(***************************************************************************)
(* keylay: v1 (JAR) signing of keyboard-layout APKs.                       *)
(* Model of src/src/keylay/apk_builder.py (ApkSigner, ApkBuilder),         *)
(* src/src/keylay/layouts.py and src/src/keylay/server.py.                 *)
(*                                                                         *)
(* Text is modelled by TLA+ strings, built and taken apart character by    *)
(* character.  SHA-256 and base64 are modelled as injective symbolic       *)
(* encodings (no collisions), written sha256<...> and b64<...>.            *)
(***************************************************************************)
EXTENDS Integers, Sequences, FiniteSets, TLC

VARIABLES
    signer,        \* ApkSigner instance: [cert, private_key]
    pc,            \* per thread: position inside sign_apk
    input_zip,     \* per thread: the template archive, its entries in order
    replacements,  \* per thread: the caller's replacements dict
    files,         \* per thread: local dict `files` (insertion ordered)
    idx,           \* per thread: position of the for loop over infolist()
    manifest,      \* per thread: local `manifest`
    sig_file,      \* per thread: local `sig_file`
    pkcs7_sig,     \* per thread: local `pkcs7_sig`
    output,        \* per thread: entries written to the output archive
    raised,        \* per thread: message of the exception leaving sign_apk, "" if none
    apk_bytes,     \* per thread: what build_apk returned to serve_apk
    response,      \* per thread: the HTTP response of serve_apk
    disk,          \* the credential files under resources/ and the password in the environment
    load_error,    \* the exception create_builder_from_env has raised, "" if none
    layout_name,   \* argument `name` of get_kcm_path
    kcm_path,      \* outcome of get_kcm_path(name)
    base_layout,   \* argument `layout` of from_layout: the base layout
    user_mappings, \* argument `mappings` of from_layout: the user's dict code -> keyCode
    new_layout,    \* outcome of from_layout(layout, mappings)
    request,       \* the HTTP request being handled
    verdict,       \* what check_origin has decided for the request
    reply,         \* the response sent for the request
    build_calls,   \* times builder.build_apk was invoked for the request
    one_layout_apk, \* ApkBuilder._one_layout_apk
    two_layout_apk, \* ApkBuilder._two_layout_apk
    bpc,           \* per thread: position inside ApkBuilder.init / build_apk
    call,          \* per thread: the method called on the builder and its layout2
    template       \* per thread: local `template` of build_apk

\* state of one serve_apk call around sign_apk
serveVars == <<raised, apk_bytes, response>>

\* everything outside the locals of sign_apk
\* state of loading the signing identity
loadVars == <<disk, load_error>>

\* arguments and outcomes of the functions of layouts.py
layoutVars == <<layout_name, kcm_path, base_layout, user_mappings, new_layout>>

\* one request on its way through check_origin and its route
requestVars == <<request, verdict, reply, build_calls>>

\* the shared ApkBuilder and the calls running on it
builderVars == <<one_layout_apk, two_layout_apk, bpc, call, template>>

otherVars == <<serveVars, loadVars, layoutVars, requestVars, builderVars>>

vars == <<signer, pc, input_zip, replacements, files, idx,
          manifest, sig_file, pkcs7_sig, output, otherVars>>

-----------------------------------------------------------------------------
(* Bounds of the model *)

\* most entries a template archive holds
MaxEntries == 2

\* threads that may be inside sign_apk on the one signer
Threads == {1, 2}

-----------------------------------------------------------------------------
(* Python str operations *)

startswith(s, p) == Len(s) >= Len(p) /\ SubSeq(s, 1, Len(p)) = p

endswith(s, p) == Len(s) >= Len(p) /\ SubSeq(s, Len(s) - Len(p) + 1, Len(s)) = p

\* the characters entry names are made of, in code point order
CodePoints == "-./0123456789ABCDEFGHIJKLMNOPQRSTUVWXYZ_abcdefghijklmnopqrstuvwxyz"

\* rank of a character by code point (ord() up to a monotone renumbering)
ord(ch) == CHOOSE i \in 1..Len(CodePoints) : SubSeq(CodePoints, i, i) = ch

\* str.__lt__: comparison by code points, a proper prefix sorts first
RECURSIVE str_lt(_, _)
str_lt(a, b) ==
    IF Len(b) = 0 THEN FALSE
    ELSE IF Len(a) = 0 THEN TRUE
    ELSE LET x == ord(SubSeq(a, 1, 1))
             y == ord(SubSeq(b, 1, 1))
         IN IF x # y THEN x < y
            ELSE str_lt(SubSeq(a, 2, Len(a)), SubSeq(b, 2, Len(b)))

\* sep.join(lines)
RECURSIVE join(_, _)
join(sep, lines) ==
    IF Len(lines) = 0 THEN ""
    ELSE IF Len(lines) = 1 THEN lines[1]
    ELSE lines[1] \o sep \o join(sep, Tail(lines))

\* s.split(sep), for a separator that cannot overlap itself (one character,
\* or "\r\n"): the pieces between the occurrences of sep
split(s, sep) ==
    LET hits == {i \in 1..(Len(s) - Len(sep) + 1) : SubSeq(s, i, i + Len(sep) - 1) = sep}
        n == Cardinality(hits)
        nth(k) == CHOOSE i \in hits : Cardinality({j \in hits : j < i}) = k - 1
        first(k) == IF k = 1 THEN 1 ELSE nth(k - 1) + Len(sep)
        last(k) == IF k = n + 1 THEN Len(s) ELSE nth(k) - 1
    IN [k \in 1..(n + 1) |-> SubSeq(s, first(k), last(k))]

\* s.replace(old, new)
replace(s, old, new) == join(new, split(s, old))

-----------------------------------------------------------------------------
(* Python dict (insertion ordered): a sequence of <<key, value>> items *)

dict_keys(d) == {d[i][1] : i \in 1..Len(d)}

dict_get(d, k) == LET i == CHOOSE j \in 1..Len(d) : d[j][1] = k IN d[i][2]

\* d[k] = v: an existing key keeps its position
dict_set(d, k, v) ==
    IF k \in dict_keys(d)
    THEN [i \in 1..Len(d) |-> IF d[i][1] = k THEN <<k, v>> ELSE d[i]]
    ELSE Append(d, <<k, v>>)

\* sorted(d.items()): keys are unique, so the order is that of the keys
RECURSIVE sorted_items(_)
sorted_items(d) ==
    IF Len(d) = 0 THEN <<>>
    ELSE LET m == CHOOSE i \in 1..Len(d) :
                    \A j \in 1..Len(d) : j = i \/ str_lt(d[i][1], d[j][1])
             rest == [i \in 1..(Len(d) - 1) |-> IF i < m THEN d[i] ELSE d[i + 1]]
         IN <<d[m]>> \o sorted_items(rest)

-----------------------------------------------------------------------------
(* zipfile.ZipFile opened for reading: a sequence of [filename, data] *)

\* ZipInfo.is_dir()
is_dir(info) == endswith(info.filename, "/")

\* ZipFile.read(name): NameToInfo keeps the last entry stored under a name
zip_read(zip, name) ==
    LET last == CHOOSE i \in 1..Len(zip) :
                    /\ zip[i].filename = name
                    /\ \A j \in (i + 1)..Len(zip) : zip[j].filename # name
    IN zip[last].data

-----------------------------------------------------------------------------
(* hashlib / base64, symbolic: a digest is written as the text it was taken *)
(* of, line breaks escaped, as a digest in base64 holds no line break       *)

escaped(data) == replace(replace(replace(data, "~", "~~"), "\r", "~r"), "\n", "~n")

sha256(data) == "sha256<" \o escaped(data) \o ">"

b64encode(digest) == "b64<" \o digest \o ">"

-----------------------------------------------------------------------------
(* ApkSigner *)

LAYOUT_PATH == "res/Q2.kcm"

LAYOUT2_PATH == "res/_f.kcm"

\* _hash_file
hash_file(data) == b64encode(sha256(data))

\* the lines _create_manifest adds for the entries, in sorted order
RECURSIVE manifest_entry_lines(_)
manifest_entry_lines(items) ==
    IF Len(items) = 0 THEN <<>>
    ELSE <<"Name: " \o items[1][1],
           "SHA-256-Digest: " \o hash_file(items[1][2]),
           "">> \o manifest_entry_lines(Tail(items))

\* the entries walked in the order the dict holds them
unsorted_order(fs) == fs

\* the order in which _create_manifest walks the entries
manifest_order(fs) == sorted_items(fs)

\* _create_manifest
create_manifest(fs) ==
    join("\r\n", <<"Manifest-Version: 1.0", "Created-By: keylay", "">>
                 \o manifest_entry_lines(manifest_order(fs)))

\* _hash_manifest_section
hash_manifest_section(name, digest) ==
    b64encode(sha256("Name: " \o name \o "\r\nSHA-256-Digest: " \o digest \o "\r\n\r\n"))

\* _hash_manifest_main
hash_manifest_main ==
    b64encode(sha256("Manifest-Version: 1.0\r\nCreated-By: keylay\r\n\r\n"))

\* the digest of the content recorded in place of the section digest
sf_content_digest(name, content) == hash_file(content)

\* the digest _create_signature_file records for one entry
sf_section_digest(name, content) == hash_manifest_section(name, hash_file(content))

\* the lines _create_signature_file adds for the entries, in sorted order
RECURSIVE sf_entry_lines(_)
sf_entry_lines(items) ==
    IF Len(items) = 0 THEN <<>>
    ELSE <<"Name: " \o items[1][1],
           "SHA-256-Digest: " \o sf_section_digest(items[1][1], items[1][2]),
           "">> \o sf_entry_lines(Tail(items))

\* _create_signature_file
create_signature_file(mf, fs) ==
    join("\r\n", <<"Signature-Version: 1.0",
                   "Created-By: keylay",
                   "SHA-256-Digest-Manifest: " \o b64encode(sha256(mf)),
                   "SHA-256-Digest-Manifest-Main-Attributes: " \o hash_manifest_main,
                   "">>
                 \o sf_entry_lines(sorted_items(fs)))

\* the options without NoCapabilities
pkcs7_options_with_capabilities == {"DetachedSignature"}

\* the options _create_pkcs7_signature passes to sign()
pkcs7_options == {"DetachedSignature", "NoCapabilities"}

\* PKCS7SignatureBuilder().set_data(data).add_signer(...).sign(encoding, options)
\* as the cryptography library documents it: one SignerInfo per signer, the
\* content left out under DetachedSignature, the SMIMECapabilities attribute
\* left out under NoCapabilities, no signed attribute under NoAttributes.
pkcs7_sign(data, signers, encoding, options) ==
    [ encoding     |-> encoding,
      content      |-> IF "DetachedSignature" \in options THEN "" ELSE data,
      detached     |-> "DetachedSignature" \in options,
      certificates |-> [i \in 1..Len(signers) |-> signers[i].cert],
      signer_infos |->
        [i \in 1..Len(signers) |->
            [ cert             |-> signers[i].cert,
              digest_algorithm |-> signers[i].hash,
              signed_attrs     |->
                IF "NoAttributes" \in options THEN {}
                ELSE {"contentType", "signingTime", "messageDigest"}
                     \cup (IF "NoCapabilities" \in options
                           THEN {} ELSE {"SMIMECapabilities"}),
              message_digest   |-> IF signers[i].hash = "SHA256" THEN sha256(data)
                                   ELSE signers[i].hash \o "<" \o data \o ">",
              signed_with      |-> signers[i].private_key ]] ]

\* _create_pkcs7_signature
create_pkcs7_signature(self, data) ==
    pkcs7_sign(data,
               <<[cert |-> self.cert, private_key |-> self.private_key, hash |-> "SHA256"]>>,
               "DER", pkcs7_options)

\* the test without the clause for the manifest
is_signature_file_no_manifest(name) ==
    /\ startswith(name, "META-INF/")
    /\ \/ endswith(name, ".SF")
       \/ endswith(name, ".RSA")
       \/ endswith(name, ".DSA")
       \/ endswith(name, ".EC")

\* the test without the META-INF/ prefix
is_signature_file_any_dir(name) ==
    \/ endswith(name, ".SF")
    \/ endswith(name, ".RSA")
    \/ endswith(name, ".DSA")
    \/ endswith(name, ".EC")
    \/ name = "META-INF/MANIFEST.MF"

\* the test of sign_apk that skips existing signature files
is_signature_file(name) ==
    /\ startswith(name, "META-INF/")
    /\ \/ endswith(name, ".SF")
       \/ endswith(name, ".RSA")
       \/ endswith(name, ".DSA")
       \/ endswith(name, ".EC")
       \/ name = "META-INF/MANIFEST.MF"

\* `files` started from the replacements: files = dict(replacements)
RECURSIVE dict_of(_)
dict_of(f) ==
    IF DOMAIN f = {} THEN <<>>
    ELSE LET k == CHOOSE x \in DOMAIN f : \A y \in DOMAIN f : y = x \/ str_lt(x, y)
         IN <<<<k, f[k]>>>> \o dict_of([x \in DOMAIN f \ {k} |-> f[x]])

new_files_from_replacements(repl) == dict_of(repl)

\* `files` as sign_apk starts with it
new_files(repl) == <<>>

\* the loop body with the replacement lookup left out
collect_entry_unreplaced(fs, zip, info, repl) ==
    IF is_dir(info) THEN fs
    ELSE IF is_signature_file(info.filename) THEN fs
    ELSE dict_set(fs, info.filename, zip_read(zip, info.filename))

\* one pass of the loop body of sign_apk over a template entry
collect_entry(fs, zip, info, repl) ==
    IF is_dir(info) THEN fs
    ELSE IF is_signature_file(info.filename) THEN fs
    ELSE IF info.filename \in DOMAIN repl
         THEN dict_set(fs, info.filename, repl[info.filename])
         ELSE dict_set(fs, info.filename, zip_read(zip, info.filename))

\* the entries written in sorted order
sorted_write_order(fs) == sorted_items(fs)

\* the order in which sign_apk writes the entries of `files`
write_order(fs) == fs

\* the writestr calls of sign_apk, in order
written_entries(mf, sf, p7, fs) ==
    << [filename |-> "META-INF/MANIFEST.MF", data |-> mf],
       [filename |-> "META-INF/KEYLAY.SF", data |-> sf],
       [filename |-> "META-INF/KEYLAY.RSA", data |-> p7] >>
    \o [i \in 1..Len(fs) |-> [filename |-> write_order(fs)[i][1],
                              data |-> write_order(fs)[i][2]]]

-----------------------------------------------------------------------------
(* Inputs *)

\* names of file entries a template may hold
FileNames ==
    { "res/Q2.kcm", "lib/x.SF",
      "META-INF/MANIFEST.MF", "META-INF/KEYLAY.SF", "META-INF/KEYLAY.RSA",
      "META-INF/CERT.DSA", "META-INF/CERT.EC", "META-INF/sub/MANIFEST.MF" }

\* names of directory entries a template may hold
DirNames == {"res/"}

\* contents of template entries
Contents == {"A", "B"}

Entries ==
    [filename : FileNames, data : Contents] \cup [filename : DirNames, data : {""}]

Templates == UNION {[1..n -> Entries] : n \in 0..MaxEntries}

\* keys a caller may put in replacements; build_apk uses the two layout paths
ReplacementKeys == {LAYOUT_PATH, LAYOUT2_PATH, "META-INF/MANIFEST.MF"}

\* no replacement, those build_apk passes, and one keyed by a metadata path
ReplacementMaps ==
    {[k \in K |-> "new:" \o k] :
        K \in {{}, {LAYOUT_PATH}, {LAYOUT_PATH, LAYOUT2_PATH}, {"META-INF/MANIFEST.MF"}}}

\* the smaller inputs of the calls that run side by side
SharedEntries == [filename : {"res/Q2.kcm", "lib/x.SF"}, data : {"A"}]

SharedTemplates == UNION {[1..n -> SharedEntries] : n \in 0..MaxEntries}

SharedReplacementMaps == {[k \in K |-> "new:" \o k] : K \in SUBSET {LAYOUT_PATH}}

\* signing identities an ApkSigner may have been constructed with
Signers == { [cert |-> "certA", private_key |-> "keyA"] }

\* the files the repository ships: no keylay.p12, the PEM pair of one identity
RepositoryDisk ==
    [p12 |-> "", cert_pem |-> "certA", key_pem |-> "keyA", password |-> "exkeymo"]

\* value of pkcs7_sig before _create_pkcs7_signature has run
NoSignature == pkcs7_sign("", <<>>, "", {})

-----------------------------------------------------------------------------
(* State machine: each thread runs sign_apk on the one signer *)

\* build_apk has returned nothing yet
NoBytes == [returned |-> FALSE, entries |-> <<>>]

\* serve_apk has answered nothing yet
NoResponse == [status |-> 0, text |-> "", body |-> NoBytes]

\* get_kcm_path has not returned
NoPath == [called |-> FALSE, raised |-> "", path |-> <<>>]

\* from_layout has not returned
NoLayout == [called |-> FALSE, text |-> ""]

\* no function of layouts.py is being called
NoLayoutCalls ==
    /\ layout_name = ""
    /\ kcm_path = NoPath
    /\ base_layout = ""
    /\ user_mappings = <<>>
    /\ new_layout = NoLayout

\* the two templates as init() loads them
ONE_LAYOUT_TEMPLATE == <<"app-oneLayout-release-unsigned.apk">>

TWO_LAYOUTS_TEMPLATE == <<"app-twoLayouts-release-unsigned.apk">>

\* no method of the builder has been called by the thread
NoCall == [method |-> "", layout2 |-> ""]

\* the builder create_builder_from_env returns: init() has run, nobody calls
BuilderReady ==
    /\ one_layout_apk = ONE_LAYOUT_TEMPLATE
    /\ two_layout_apk = TWO_LAYOUTS_TEMPLATE
    /\ bpc = [c \in Threads |-> "idle"]
    /\ call = [c \in Threads |-> NoCall]
    /\ template = [c \in Threads |-> <<>>]

\* a header that the request does not carry: headers.get returns None
None == <<>>

\* no response has been sent
NoReply == [status |-> 0, text |-> ""]

\* no request has arrived
NoRequest ==
    /\ request = [method |-> "", path |-> "", host_url |-> "", origin |-> None,
                  referer |-> None, form_layout |-> ""]
    /\ verdict = "none"
    /\ reply = NoReply
    /\ build_calls = 0

\* no serve_apk call has got anywhere yet
NothingServed ==
    /\ raised = [c \in Threads |-> ""]
    /\ apk_bytes = [c \in Threads |-> NoBytes]
    /\ response = [c \in Threads |-> NoResponse]

Init ==
    /\ signer \in Signers
    /\ pc = [c \in Threads |-> "idle"]
    /\ input_zip = [c \in Threads |-> <<>>]
    /\ replacements = [c \in Threads |-> <<>>]
    /\ files = [c \in Threads |-> <<>>]
    /\ idx = [c \in Threads |-> 0]
    /\ manifest = [c \in Threads |-> ""]
    /\ sig_file = [c \in Threads |-> ""]
    /\ pkcs7_sig = [c \in Threads |-> NoSignature]
    /\ output = [c \in Threads |-> <<>>]
    /\ NothingServed
    /\ disk = RepositoryDisk
    /\ load_error = ""
    /\ NoLayoutCalls
    /\ NoRequest
    /\ BuilderReady

\* sign_apk entered with `files` shared between the calls instead of local
SignApkBeginSharedFiles(c, zips, repls) ==
    /\ pc[c] = "idle"
    /\ \E zip \in zips, repl \in repls :
        /\ input_zip' = [input_zip EXCEPT ![c] = zip]
        /\ replacements' = [replacements EXCEPT ![c] = repl]
    /\ files' = [files EXCEPT ![c] = files[CHOOSE d \in Threads : d # c]]
    /\ pc' = [pc EXCEPT ![c] = "collect"]
    /\ idx' = [idx EXCEPT ![c] = 1]
    /\ UNCHANGED <<signer, manifest, sig_file, pkcs7_sig, output>>
    /\ UNCHANGED otherVars

\* sign_apk is entered with a template of zips and a dict of repls: files = {}
SignApkBegin(c, zips, repls) ==
    /\ pc[c] = "idle"
    /\ \E zip \in zips, repl \in repls :
        /\ input_zip' = [input_zip EXCEPT ![c] = zip]
        /\ replacements' = [replacements EXCEPT ![c] = repl]
        /\ files' = [files EXCEPT ![c] = new_files(repl)]
    /\ pc' = [pc EXCEPT ![c] = "collect"]
    /\ idx' = [idx EXCEPT ![c] = 1]
    /\ UNCHANGED <<signer, manifest, sig_file, pkcs7_sig, output>>
    /\ UNCHANGED otherVars

\* one iteration of `for info in input_zip.infolist()`
CollectEntry(c) ==
    /\ pc[c] = "collect"
    /\ idx[c] <= Len(input_zip[c])
    /\ files' = [files EXCEPT ![c] =
                    collect_entry(files[c], input_zip[c], input_zip[c][idx[c]],
                                  replacements[c])]
    /\ idx' = [idx EXCEPT ![c] = idx[c] + 1]
    /\ UNCHANGED <<signer, pc, input_zip, replacements, manifest, sig_file,
                   pkcs7_sig, output>>
    /\ UNCHANGED otherVars

\* manifest = self._create_manifest(files), once the loop has ended
CreateManifest(c) ==
    /\ pc[c] = "collect"
    /\ idx[c] > Len(input_zip[c])
    /\ manifest' = [manifest EXCEPT ![c] = create_manifest(files[c])]
    /\ pc' = [pc EXCEPT ![c] = "sig_file"]
    /\ UNCHANGED <<signer, input_zip, replacements, files, idx, sig_file,
                   pkcs7_sig, output>>
    /\ UNCHANGED otherVars

\* sig_file = self._create_signature_file(manifest, files)
CreateSignatureFile(c) ==
    /\ pc[c] = "sig_file"
    /\ sig_file' = [sig_file EXCEPT ![c] = create_signature_file(manifest[c], files[c])]
    /\ pc' = [pc EXCEPT ![c] = "pkcs7"]
    /\ UNCHANGED <<signer, input_zip, replacements, files, idx, manifest,
                   pkcs7_sig, output>>
    /\ UNCHANGED otherVars

\* pkcs7_sig = self._create_pkcs7_signature(sig_file)
CreatePkcs7Signature(c) ==
    /\ pc[c] = "pkcs7"
    /\ pkcs7_sig' = [pkcs7_sig EXCEPT ![c] = create_pkcs7_signature(signer, sig_file[c])]
    /\ pc' = [pc EXCEPT ![c] = "write"]
    /\ UNCHANGED <<signer, input_zip, replacements, files, idx, manifest,
                   sig_file, output>>
    /\ UNCHANGED otherVars

\* the with block that writes the signed APK
WriteSignedApk(c) ==
    /\ pc[c] = "write"
    /\ output' = [output EXCEPT ![c] =
                    written_entries(manifest[c], sig_file[c], pkcs7_sig[c], files[c])]
    /\ pc' = [pc EXCEPT ![c] = "done"]
    /\ UNCHANGED <<signer, input_zip, replacements, files, idx, manifest,
                   sig_file, pkcs7_sig>>
    /\ UNCHANGED otherVars

\* sign_apk returns: its locals are gone, the thread may sign again
SignApkReturn(c) ==
    /\ pc[c] = "done"
    /\ pc' = [pc EXCEPT ![c] = "idle"]
    /\ input_zip' = [input_zip EXCEPT ![c] = <<>>]
    /\ replacements' = [replacements EXCEPT ![c] = <<>>]
    /\ files' = [files EXCEPT ![c] = <<>>]
    /\ idx' = [idx EXCEPT ![c] = 0]
    /\ manifest' = [manifest EXCEPT ![c] = ""]
    /\ sig_file' = [sig_file EXCEPT ![c] = ""]
    /\ pkcs7_sig' = [pkcs7_sig EXCEPT ![c] = NoSignature]
    /\ output' = [output EXCEPT ![c] = <<>>]
    /\ UNCHANGED signer
    /\ UNCHANGED otherVars

\* one caller at a time, any template and replacements
Next ==
    \/ SignApkBegin(1, Templates, ReplacementMaps)
    \/ CollectEntry(1)
    \/ CreateManifest(1)
    \/ CreateSignatureFile(1)
    \/ CreatePkcs7Signature(1)
    \/ WriteSignedApk(1)
    \/ SignApkReturn(1)

Spec == Init /\ [][Next]_vars

\* several threads sign on the same ApkSigner, their steps interleaved
NextReentrant ==
    \E c \in Threads :
        \/ SignApkBegin(c, SharedTemplates, SharedReplacementMaps)
        \/ CollectEntry(c)
        \/ CreateManifest(c)
        \/ CreateSignatureFile(c)
        \/ CreatePkcs7Signature(c)
        \/ WriteSignedApk(c)
        \/ SignApkReturn(c)

SpecReentrant == Init /\ [][NextReentrant]_vars

-----------------------------------------------------------------------------
(* Reading the results back: an independent reader of the produced texts *)

after(line, prefix) == SubSeq(line, Len(prefix) + 1, Len(line))

\* the <<name, digest>> pairs of consecutive Name / SHA-256-Digest lines
RECURSIVE pairs_of_lines(_)
pairs_of_lines(ls) ==
    IF Len(ls) < 2 THEN <<>>
    ELSE IF startswith(ls[1], "Name: ") /\ startswith(ls[2], "SHA-256-Digest: ")
         THEN << <<after(ls[1], "Name: "), after(ls[2], "SHA-256-Digest: ")>> >>
              \o pairs_of_lines(Tail(Tail(ls)))
         ELSE pairs_of_lines(Tail(ls))

digest_pairs(text) == pairs_of_lines(split(text, "\r\n"))

pair_names(ps) == {ps[i][1] : i \in 1..Len(ps)}

\* positions of the output archive that hold an entry called name
positions(out, name) == {i \in 1..Len(out) : out[i].filename = name}

\* the bytes the output archive stores under name (stored once)
stored(out, name) == out[CHOOSE i \in positions(out, name) : TRUE].data

Done(c) == pc[c] = "done"

template_names(zip) == {zip[i].filename : i \in 1..Len(zip)}

\* the exclusion list: under META-INF/, the manifest itself or a signature suffix
MetadataPath(name) ==
    /\ startswith(name, "META-INF/")
    /\ \/ name = "META-INF/MANIFEST.MF"
       \/ \E suffix \in {".SF", ".RSA", ".DSA", ".EC"} : endswith(name, suffix)

\* the file entries of a template that are not signature metadata
Payload(zip) == {i \in 1..Len(zip) : ~endswith(zip[i].filename, "/")
                                       /\ ~MetadataPath(zip[i].filename)}

\* the bytes of the last entry the template stores under name
LastBytes(zip, name) ==
    LET js == {j \in 1..Len(zip) : zip[j].filename = name}
    IN zip[CHOOSE j \in js : \A k \in js : k <= j].data

\* what E must hold for a payload path
Resolved(zip, repl, name) ==
    IF name \in DOMAIN repl THEN repl[name] ELSE LastBytes(zip, name)

-----------------------------------------------------------------------------
(* C1 *)

\* C1 as stated: E maps the path of every payload entry of the template to the
\* replacement bytes when the path is a key of replacements and to that
\* entry's own bytes otherwise; with no replacements E is the template's
\* entry set minus the signature metadata; the output stores E's bytes.
C1_OwnBytes ==
    \A c \in Threads : Done(c) =>
        LET zip == input_zip[c]
            repl == replacements[c]
            E == files[c]
        IN /\ \A i \in Payload(zip) :
                /\ zip[i].filename \in dict_keys(E)
                /\ dict_get(E, zip[i].filename) =
                      IF zip[i].filename \in DOMAIN repl
                      THEN repl[zip[i].filename] ELSE zip[i].data
           /\ DOMAIN repl = {} =>
                {E[k] : k \in 1..Len(E)} =
                    {<<zip[i].filename, zip[i].data>> : i \in Payload(zip)}
           /\ \A k \in 1..Len(E) : \A i \in positions(output[c], E[k][1]) :
                output[c][i].data = E[k][2]

\* C1 (amended): E maps the path of every payload entry of the template to the
\* replacement bytes when the path is a key of replacements and otherwise to
\* the bytes the template returns for that path, those of the last entry
\* stored under it; E holds nothing else when replacements is empty, and the
\* output archive stores exactly E's bytes under each path of E.
C1_EntrySet ==
    \A c \in Threads : Done(c) =>
        LET zip == input_zip[c]
            repl == replacements[c]
            E == files[c]
        IN /\ \A i \in Payload(zip) :
                /\ zip[i].filename \in dict_keys(E)
                /\ dict_get(E, zip[i].filename) = Resolved(zip, repl, zip[i].filename)
           /\ DOMAIN repl = {} =>
                {E[k] : k \in 1..Len(E)} =
                    {<<zip[i].filename, LastBytes(zip, zip[i].filename)>> : i \in Payload(zip)}
           /\ \A k \in 1..Len(E) :
                /\ positions(output[c], E[k][1]) # {}
                /\ \A i \in positions(output[c], E[k][1]) : output[c][i].data = E[k][2]

\* a call has finished on a template with an overridden and an untouched entry
C1_Witness ==
    /\ Done(1)
    /\ \E i, j \in Payload(input_zip[1]) :
        /\ input_zip[1][i].filename \in DOMAIN replacements[1]
        /\ input_zip[1][j].filename \notin DOMAIN replacements[1]
-----------------------------------------------------------------------------
(* C2 *)

\* C2 as stated: a key of replacements that is the path of no template entry
\* is still inserted: it is in E, listed in the manifest and the signature
\* file, and stored in the output archive with the replacement bytes.
C2_NewEntriesInserted ==
    \A c \in Threads : Done(c) =>
        \A p \in DOMAIN replacements[c] :
            p \notin template_names(input_zip[c]) =>
                /\ p \in dict_keys(files[c])
                /\ p \in pair_names(digest_pairs(manifest[c]))
                /\ p \in pair_names(digest_pairs(sig_file[c]))
                /\ \E i \in positions(output[c], p) :
                        output[c][i].data = replacements[c][p]

\* C2 (amended): a key of replacements that is the path of no template entry
\* is ignored: it is not in E, not listed in the manifest or the signature
\* file, and the output archive stores the replacement bytes nowhere under
\* that path; replacements only override entries the template has.
C2_OnlyReplaces ==
    \A c \in Threads : Done(c) =>
        \A p \in DOMAIN replacements[c] :
            p \notin template_names(input_zip[c]) =>
                /\ p \notin dict_keys(files[c])
                /\ p \notin pair_names(digest_pairs(stored(output[c], "META-INF/MANIFEST.MF")))
                /\ p \notin pair_names(digest_pairs(stored(output[c], "META-INF/KEYLAY.SF")))
                /\ \A i \in positions(output[c], p) :
                        output[c][i].data # replacements[c][p]

\* a call has finished whose replacements name a path the template lacks,
\* beside one it has
C2_Witness ==
    /\ Done(1)
    /\ LAYOUT_PATH \in DOMAIN replacements[1]
    /\ LAYOUT_PATH \in template_names(input_zip[1])
    /\ LAYOUT2_PATH \in DOMAIN replacements[1]
    /\ LAYOUT2_PATH \notin template_names(input_zip[1])

-----------------------------------------------------------------------------
(* C3 *)

\* C3: the manifest stored in the output archive holds exactly one
\* Name/SHA-256-Digest pair per path of E and none for another path, the
\* pairs in strictly increasing (lexicographic) order of path whatever the
\* order E was built in, each digest the base64 SHA-256 of the bytes E holds
\* for the path: the replacement bytes of an overridden entry, the template's
\* bytes of an untouched one.  (Paths hold no line break.)
C3_Manifest ==
    \A c \in Threads : Done(c) =>
        LET E == files[c]
            P == digest_pairs(stored(output[c], "META-INF/MANIFEST.MF"))
        IN /\ Len(P) = Len(E)
           /\ pair_names(P) = dict_keys(E)
           /\ \A i, j \in 1..Len(P) : i < j => str_lt(P[i][1], P[j][1])
           /\ \A i \in 1..Len(P) :
                P[i][2] = b64encode(sha256(dict_get(E, P[i][1])))
           /\ \A i \in Payload(input_zip[c]) : \E k \in 1..Len(P) :
                /\ P[k][1] = input_zip[c][i].filename
                /\ P[k][2] = b64encode(sha256(
                                Resolved(input_zip[c], replacements[c], P[k][1])))

\* a call has finished whose E was built against lexicographic order, with one
\* entry overridden and one untouched
C3_Witness ==
    /\ Done(1)
    /\ Len(files[1]) = 2
    /\ str_lt(files[1][2][1], files[1][1][1])
    /\ files[1][1][1] \in DOMAIN replacements[1]
    /\ files[1][2][1] \notin DOMAIN replacements[1]

-----------------------------------------------------------------------------
(* C4 *)

\* C4: the signature file stored in the output archive holds exactly one
\* Name/SHA-256-Digest pair per path of E, in the order of the manifest; the
\* digest of path p is the base64 SHA-256 of "Name: p\r\nSHA-256-Digest: d\r\n\r\n"
\* with d the digest the manifest records for p, never the digest of the
\* entry's content; its SHA-256-Digest-Manifest line carries the digest of the
\* manifest bytes stored at META-INF/MANIFEST.MF in the same archive.
C4_SignatureFile ==
    \A c \in Threads : Done(c) =>
        LET E == files[c]
            M == stored(output[c], "META-INF/MANIFEST.MF")
            S == stored(output[c], "META-INF/KEYLAY.SF")
            MP == digest_pairs(M)
            SP == digest_pairs(S)
            lines == split(S, "\r\n")
        IN /\ Len(SP) = Len(MP)
           /\ Len(SP) = Len(E)
           /\ pair_names(SP) = dict_keys(E)
           /\ \A i \in 1..Len(SP) :
                /\ SP[i][1] = MP[i][1]
                /\ SP[i][2] = b64encode(sha256("Name: " \o SP[i][1] \o "\r\nSHA-256-Digest: "
                                                \o MP[i][2] \o "\r\n\r\n"))
                /\ SP[i][2] # b64encode(sha256(dict_get(E, SP[i][1])))
           /\ {i \in 1..Len(lines) : startswith(lines[i], "SHA-256-Digest-Manifest: ")} = {3}
           /\ after(lines[3], "SHA-256-Digest-Manifest: ") = b64encode(sha256(M))

\* a call has finished with two entries in E
C4_Witness ==
    /\ Done(1)
    /\ Len(files[1]) = 2
    /\ Len(digest_pairs(sig_file[1])) = 2
-----------------------------------------------------------------------------
(* C5 *)

\* C5: in the manifest and the signature file of one call every section ends
\* with a blank line (CRLF CRLF), the header section and the last per-entry
\* section included, so that the manifest is the concatenation, in order, of
\* the fragments the signature file digests: the header section
\* "Manifest-Version: 1.0\r\nCreated-By: keylay\r\n\r\n" and, per entry,
\* "Name: p\r\nSHA-256-Digest: d\r\n\r\n".
C5_SectionsTerminated ==
    \A c \in Threads : Done(c) =>
        LET M == stored(output[c], "META-INF/MANIFEST.MF")
            S == stored(output[c], "META-INF/KEYLAY.SF")
            items == sorted_items(files[c])
            fragment(i) == "Name: " \o items[i][1] \o "\r\nSHA-256-Digest: "
                           \o b64encode(sha256(items[i][2])) \o "\r\n\r\n"
        IN /\ endswith(M, "\r\n\r\n")
           /\ endswith(S, "\r\n\r\n")
           /\ M = "Manifest-Version: 1.0\r\nCreated-By: keylay\r\n\r\n"
                  \o join("", [i \in 1..Len(items) |-> fragment(i)])

-----------------------------------------------------------------------------
(* C6 *)

MetadataEntries == {"META-INF/MANIFEST.MF", "META-INF/KEYLAY.SF", "META-INF/KEYLAY.RSA"}

\* C6: the output archive holds no entry path twice; META-INF/MANIFEST.MF,
\* META-INF/KEYLAY.SF and META-INF/KEYLAY.RSA are each written exactly once,
\* with the manifest, signature file and detached signature this call
\* generated, and no path of E is one of the three, whatever the template
\* (old metadata, repeated names) and the replacements (a metadata key).
C6_OneSignatureSet ==
    \A c \in Threads : Done(c) =>
        /\ \A i, j \in 1..Len(output[c]) :
                output[c][i].filename = output[c][j].filename => i = j
        /\ \A m \in MetadataEntries : Cardinality(positions(output[c], m)) = 1
        /\ stored(output[c], "META-INF/MANIFEST.MF") = manifest[c]
        /\ stored(output[c], "META-INF/KEYLAY.SF") = sig_file[c]
        /\ stored(output[c], "META-INF/KEYLAY.RSA") = pkcs7_sig[c]
        /\ manifest[c] # "" /\ sig_file[c] # "" /\ pkcs7_sig[c] # NoSignature
        /\ dict_keys(files[c]) \cap MetadataEntries = {}

\* a call has finished on a template that held an old manifest and an old
\* signature file, with replacements keyed by the manifest path
C6_Witness ==
    /\ Done(1)
    /\ template_names(input_zip[1]) = {"META-INF/MANIFEST.MF", "META-INF/KEYLAY.SF"}
    /\ "META-INF/MANIFEST.MF" \in DOMAIN replacements[1]

-----------------------------------------------------------------------------
(* C7 *)

\* C7 as stated: a file entry of the template is left out of E exactly when
\* its path begins with META-INF/ and ends in MANIFEST.MF or in one of .SF,
\* .RSA, .DSA, .EC.
C7_EndsInManifestName ==
    \A c \in Threads : Done(c) =>
        \A i \in 1..Len(input_zip[c]) :
            LET name == input_zip[c][i].filename
            IN ~endswith(name, "/") =>
                (name \notin dict_keys(files[c])
                    <=> /\ startswith(name, "META-INF/")
                        /\ \E e \in {"MANIFEST.MF", ".SF", ".RSA", ".DSA", ".EC"} :
                                endswith(name, e))

\* C7 (amended): a file entry of the template is left out of E exactly when
\* its path begins with META-INF/ and either is META-INF/MANIFEST.MF itself
\* or ends in one of .SF, .RSA, .DSA, .EC; every other file entry, any other
\* file under META-INF/ and any file outside it with such a suffix included,
\* is in E, in the manifest and in the output archive with the bytes E holds.
C7_ExclusionList ==
    \A c \in Threads : Done(c) =>
        \A i \in 1..Len(input_zip[c]) :
            LET name == input_zip[c][i].filename
                out == /\ startswith(name, "META-INF/")
                       /\ \/ name = "META-INF/MANIFEST.MF"
                          \/ \E e \in {".SF", ".RSA", ".DSA", ".EC"} : endswith(name, e)
            IN ~endswith(name, "/") =>
                /\ name \notin dict_keys(files[c]) <=> out
                /\ ~out =>
                    /\ name \in pair_names(digest_pairs(stored(output[c], "META-INF/MANIFEST.MF")))
                    /\ \E k \in positions(output[c], name) :
                            output[c][k].data = dict_get(files[c], name)

\* a call has finished on a template with a file under META-INF/ whose name
\* ends in MANIFEST.MF without being the manifest, and a file outside
\* META-INF/ with a signature suffix
C7_Witness ==
    /\ Done(1)
    /\ template_names(input_zip[1]) = {"META-INF/sub/MANIFEST.MF", "lib/x.SF"}
    /\ dict_keys(files[1]) = {"META-INF/sub/MANIFEST.MF", "lib/x.SF"}

-----------------------------------------------------------------------------
(* C8 *)

\* the paths of E in the order E was built: the payload paths of the
\* template in template order, a repeated path at its first place
BuildOrder(zip) ==
    LET firsts == {i \in Payload(zip) :
                        \A j \in Payload(zip) : j < i => zip[j].filename # zip[i].filename}
        nth(k) == CHOOSE i \in firsts : Cardinality({j \in firsts : j < i}) = k - 1
    IN [k \in 1..Cardinality(firsts) |-> zip[nth(k)].filename]

\* C8: the output archive holds, in this order, META-INF/MANIFEST.MF,
\* META-INF/KEYLAY.SF, META-INF/KEYLAY.RSA, then the entries of E in the order
\* E was built (template order, not the manifest's lexicographic order), and
\* nothing else.
C8_WriteOrder ==
    \A c \in Threads : Done(c) =>
        [i \in 1..Len(output[c]) |-> output[c][i].filename]
            = <<"META-INF/MANIFEST.MF", "META-INF/KEYLAY.SF", "META-INF/KEYLAY.RSA">>
              \o BuildOrder(input_zip[c])

\* a call has finished whose E was built against lexicographic order
C8_Witness ==
    /\ Done(1)
    /\ Len(files[1]) = 2
    /\ str_lt(files[1][2][1], files[1][1][1])
    /\ Len(output[1]) = 5

-----------------------------------------------------------------------------
(* C9 *)

\* C9: the detached signature stored at META-INF/KEYLAY.RSA carries no
\* content, has one signer and one certificate, the signer's, is computed
\* with the signer's key and SHA-256 over the signature-file bytes stored at
\* META-INF/KEYLAY.SF in the same archive, and its signed attributes include
\* contentType and messageDigest and never SMIMECapabilities.
C9_DetachedSignature ==
    \A c \in Threads : Done(c) =>
        LET p7 == stored(output[c], "META-INF/KEYLAY.RSA")
            S == stored(output[c], "META-INF/KEYLAY.SF")
        IN /\ p7.detached
           /\ p7.content = ""
           /\ p7.certificates = <<signer.cert>>
           /\ Len(p7.signer_infos) = 1
           /\ p7.signer_infos[1].cert = signer.cert
           /\ p7.signer_infos[1].signed_with = signer.private_key
           /\ p7.signer_infos[1].digest_algorithm = "SHA256"
           /\ p7.signer_infos[1].message_digest = sha256(S)
           /\ {"contentType", "messageDigest"} \subseteq p7.signer_infos[1].signed_attrs
           /\ "SMIMECapabilities" \notin p7.signer_infos[1].signed_attrs

\* a call has finished and stored a signature over a signature file that
\* lists an entry
C9_Witness ==
    /\ Done(1)
    /\ Len(files[1]) >= 1
    /\ positions(output[1], "META-INF/KEYLAY.RSA") = {3}
-----------------------------------------------------------------------------
(* C10 *)

\* the entry set of a call that runs alone: the loop of sign_apk over the
\* first n entries of the template, from an empty dict
RECURSIVE collected(_, _, _)
collected(zip, repl, n) ==
    IF n = 0 THEN <<>>
    ELSE collect_entry(collected(zip, repl, n - 1), zip, zip[n], repl)

SameInputs(c, d) ==
    /\ input_zip[c] = input_zip[d]
    /\ DOMAIN replacements[c] = DOMAIN replacements[d]
    /\ \A k \in DOMAIN replacements[c] : replacements[c][k] = replacements[d][k]

\* the results of a finished call are those of the call run alone on its own
\* inputs, and two finished calls on the same inputs hold the same results
ResultsFromInputsOnly ==
    \A c \in Threads : Done(c) =>
        LET E == collected(input_zip[c], replacements[c], Len(input_zip[c]))
        IN /\ files[c] = E
           /\ manifest[c] = create_manifest(E)
           /\ sig_file[c] = create_signature_file(create_manifest(E), E)
           /\ \A d \in Threads : (Done(d) /\ SameInputs(c, d)) =>
                /\ files[d] = files[c]
                /\ manifest[d] = manifest[c]
                /\ sig_file[d] = sig_file[c]
                /\ stored(output[d], "META-INF/MANIFEST.MF")
                        = stored(output[c], "META-INF/MANIFEST.MF")
                /\ stored(output[d], "META-INF/KEYLAY.SF")
                        = stored(output[c], "META-INF/KEYLAY.SF")

\* a step of any call leaves the signer's certificate and key and the
\* replacements of every call in progress as they were
InputsUntouched ==
    /\ signer' = signer
    /\ \A c \in Threads : (pc[c] # "idle" /\ pc'[c] # "idle") =>
            /\ replacements'[c] = replacements[c]
            /\ input_zip'[c] = input_zip[c]

\* C10: signing is stateless and reentrant: the entry set, manifest and
\* signature file of a call depend only on its template and replacements,
\* whatever calls ran on the same ApkSigner before, between or at the same
\* time, and no step of a call changes the signer's certificate or key or the
\* caller's replacements.
C10_Reentrant == [](ResultsFromInputsOnly) /\ [][InputsUntouched]_vars

\* two calls on the same ApkSigner have finished side by side on the same
\* template and replacements
C10_Witness ==
    /\ Done(1)
    /\ Done(2)
    /\ SameInputs(1, 2)
    /\ Len(files[1]) = 2
    /\ DOMAIN replacements[1] # {}
-----------------------------------------------------------------------------
(* serve_apk: one build served over HTTP, with the failures of sign_apk *)

\* entries of the templates that are served
ServedEntries ==
    [filename : {"res/Q2.kcm", "lib/x.SF", "META-INF/MANIFEST.MF"}, data : {"A"}]
        \cup [filename : DirNames, data : {""}]

ServedTemplates == UNION {[1..n -> ServedEntries] : n \in 0..MaxEntries}

\* the replacements build_apk passes: the layout, and the second one if given
ServedReplacementMaps ==
    {[k \in K |-> "new:" \o k] : K \in {{LAYOUT_PATH}, {LAYOUT_PATH, LAYOUT2_PATH}}}

\* the loop body reaches input_zip.read(name) for this entry
reads_entry(info, repl) ==
    /\ ~is_dir(info)
    /\ ~is_signature_file(info.filename)
    /\ info.filename \notin DOMAIN repl

\* input_zip.read(name) raises: sign_apk is left before anything is written
ReadEntryFails(c) ==
    /\ pc[c] = "collect"
    /\ idx[c] <= Len(input_zip[c])
    /\ reads_entry(input_zip[c][idx[c]], replacements[c])
    /\ raised' = [raised EXCEPT ![c] = "BadZipFile"]
    /\ pc' = [pc EXCEPT ![c] = "raised"]
    /\ UNCHANGED <<signer, input_zip, replacements, files, idx, manifest,
                   sig_file, pkcs7_sig, output, apk_bytes, response,
                   loadVars, layoutVars, requestVars, builderVars>>

\* the signing failure swallowed: the archive is written without its signature
Pkcs7FailsUnsigned(c) ==
    /\ pc[c] = "pkcs7"
    /\ output' = [output EXCEPT ![c] =
                    << [filename |-> "META-INF/MANIFEST.MF", data |-> manifest[c]],
                       [filename |-> "META-INF/KEYLAY.SF", data |-> sig_file[c]] >>
                    \o write_order(files[c])]
    /\ pc' = [pc EXCEPT ![c] = "done"]
    /\ UNCHANGED <<signer, input_zip, replacements, files, idx, manifest,
                   sig_file, pkcs7_sig, raised, apk_bytes, response,
                   loadVars, layoutVars, requestVars, builderVars>>

\* _create_pkcs7_signature raises: sign_apk is left before anything is written
Pkcs7Fails(c) ==
    /\ pc[c] = "pkcs7"
    /\ raised' = [raised EXCEPT ![c] = "signing failed"]
    /\ pc' = [pc EXCEPT ![c] = "raised"]
    /\ UNCHANGED <<signer, input_zip, replacements, files, idx, manifest,
                   sig_file, pkcs7_sig, output, apk_bytes, response,
                   loadVars, layoutVars, requestVars, builderVars>>

\* build_apk: return output.getvalue()
BuildApkReturn(c) ==
    /\ pc[c] = "done"
    /\ apk_bytes' = [apk_bytes EXCEPT ![c] = [returned |-> TRUE, entries |-> output[c]]]
    /\ pc' = [pc EXCEPT ![c] = "built"]
    /\ UNCHANGED <<signer, input_zip, replacements, files, idx, manifest,
                   sig_file, pkcs7_sig, output, raised, response,
                   loadVars, layoutVars, requestVars, builderVars>>

\* serve_apk: except Exception as e: return str(e), 500
ServeApkExcept(c) ==
    /\ pc[c] = "raised"
    /\ response' = [response EXCEPT ![c] =
                        [status |-> 500, text |-> raised[c], body |-> NoBytes]]
    /\ pc' = [pc EXCEPT ![c] = "served"]
    /\ UNCHANGED <<signer, input_zip, replacements, files, idx, manifest,
                   sig_file, pkcs7_sig, output, raised, apk_bytes,
                   loadVars, layoutVars, requestVars, builderVars>>

\* serve_apk: return send_file(io.BytesIO(apk_bytes), ...)
ServeApkSendFile(c) ==
    /\ pc[c] = "built"
    /\ response' = [response EXCEPT ![c] =
                        [status |-> 200, text |-> "", body |-> apk_bytes[c]]]
    /\ pc' = [pc EXCEPT ![c] = "served"]
    /\ UNCHANGED <<signer, input_zip, replacements, files, idx, manifest,
                   sig_file, pkcs7_sig, output, raised, apk_bytes,
                   loadVars, layoutVars, requestVars, builderVars>>

\* the request is over: the next one starts from nothing
ServeApkEnd(c) ==
    /\ pc[c] = "served"
    /\ pc' = [pc EXCEPT ![c] = "idle"]
    /\ input_zip' = [input_zip EXCEPT ![c] = <<>>]
    /\ replacements' = [replacements EXCEPT ![c] = <<>>]
    /\ files' = [files EXCEPT ![c] = <<>>]
    /\ idx' = [idx EXCEPT ![c] = 0]
    /\ manifest' = [manifest EXCEPT ![c] = ""]
    /\ sig_file' = [sig_file EXCEPT ![c] = ""]
    /\ pkcs7_sig' = [pkcs7_sig EXCEPT ![c] = NoSignature]
    /\ output' = [output EXCEPT ![c] = <<>>]
    /\ raised' = [raised EXCEPT ![c] = ""]
    /\ apk_bytes' = [apk_bytes EXCEPT ![c] = NoBytes]
    /\ response' = [response EXCEPT ![c] = NoResponse]
    /\ UNCHANGED <<signer, loadVars, layoutVars, requestVars, builderVars>>

\* one request at a time, where a read or the signing may fail
NextServe ==
    \/ SignApkBegin(1, ServedTemplates, ServedReplacementMaps)
    \/ CollectEntry(1)
    \/ ReadEntryFails(1)
    \/ CreateManifest(1)
    \/ CreateSignatureFile(1)
    \/ CreatePkcs7Signature(1)
    \/ Pkcs7Fails(1)
    \/ WriteSignedApk(1)
    \/ BuildApkReturn(1)
    \/ ServeApkExcept(1)
    \/ ServeApkSendFile(1)
    \/ ServeApkEnd(1)

SpecServe == Init /\ [][NextServe]_vars

\* the archive holds the manifest, the signature file and the detached signature
HasSignatureSet(entries) ==
    \A name \in {"META-INF/MANIFEST.MF", "META-INF/KEYLAY.SF", "META-INF/KEYLAY.RSA"} :
        \E i \in 1..Len(entries) : entries[i].filename = name

\* a read or the signing has failed in the call of thread c
Failed(c) == raised[c] # ""

\* C11: when reading a template entry or the signature primitive fails, the
\* error reaches the caller with nothing written to the output buffer and no
\* bytes returned by build_apk, no archive without its manifest, signature file
\* or detached signature is ever returned, and the HTTP answer is 500 with no
\* package body
C11_FailurePropagates ==
    \A c \in Threads :
        /\ Failed(c) =>
            /\ pc[c] \in {"raised", "served"}
            /\ output[c] = <<>>
            /\ apk_bytes[c] = NoBytes
            /\ pc[c] = "served" =>
                /\ response[c].status = 500
                /\ response[c].text = raised[c]
                /\ response[c].body = NoBytes
        /\ apk_bytes[c].returned => HasSignatureSet(apk_bytes[c].entries)
        /\ response[c].body.returned =>
            /\ response[c].status = 200
            /\ HasSignatureSet(response[c].body.entries)

\* the signing has failed after entries were collected, and 500 was answered
C11_Witness ==
    /\ pc[1] = "served"
    /\ raised[1] = "signing failed"
    /\ files[1] # <<>>
    /\ response[1].status = 500
-----------------------------------------------------------------------------
(* Loading the signing identity: from_pem_files, from_pkcs12 *)

\* no ApkSigner has been constructed
NoSigner == [cert |-> "", private_key |-> ""]

\* results of the loaders: a value, or the exception raised
Loaded(v) == [ok |-> TRUE, value |-> v, error |-> ""]

Raises(e) == [ok |-> FALSE, value |-> "", error |-> e]

\* x509.load_pem_x509_certificate(data)
load_pem_x509_certificate(data) ==
    IF data \in {"certA", "certB"} THEN Loaded(data)
    ELSE Raises("ValueError: Unable to load PEM file")

\* serialization.load_pem_private_key(data, password): an encrypted key needs
\* its password, a plain key must be given none
load_pem_private_key(data, password) ==
    IF data \in {"keyA", "keyB"}
    THEN IF password = "" THEN Loaded(data)
         ELSE Raises("TypeError: Password was given but private key is not encrypted")
    ELSE IF data \in {"encrypted:keyA", "encrypted:keyB"}
    THEN IF password = "" THEN Raises("TypeError: Password was not given but private key is encrypted")
         ELSE IF password = "exkeymo" THEN Loaded(after(data, "encrypted:"))
         ELSE Raises("ValueError: Bad decrypt. Incorrect password?")
    ELSE Raises("ValueError: Could not deserialize key data")

\* pkcs12.load_key_and_certificates(data, password): the key and its certificate
load_key_and_certificates(data, password) ==
    IF data \in {"p12:A", "p12:B"}
    THEN IF password = "exkeymo"
         THEN Loaded([cert |-> "cert" \o after(data, "p12:"),
                      private_key |-> "key" \o after(data, "p12:")])
         ELSE Raises("ValueError: Invalid password or PKCS12 data")
    ELSE Raises("ValueError: Could not deserialize PKCS12 data")

\* ApkSigner.from_pem_files(cert_path, key_path, key_password)
from_pem_files(cert_data, key_data, key_password) ==
    LET cert == load_pem_x509_certificate(cert_data)
        private_key == load_pem_private_key(key_data, key_password)
    IN IF ~cert.ok THEN cert
       ELSE IF ~private_key.ok THEN private_key
       ELSE Loaded([cert |-> cert.value, private_key |-> private_key.value])

\* ApkSigner.from_pkcs12(p12_path, password)
from_pkcs12(p12_data, password) ==
    LET pair == load_key_and_certificates(p12_data, password)
    IN IF ~pair.ok THEN pair
       ELSE Loaded([cert |-> pair.value.cert, private_key |-> pair.value.private_key])

\* the credential files that may lie under resources/; p12 = "" is no keylay.p12
Disks ==
    [p12 : {""}, cert_pem : {"certA", "certB", "corrupt"},
     key_pem : {"keyA", "keyB", "encrypted:keyA", "corrupt"},
     password : {"exkeymo", "wrong"}]
      \cup [p12 : {"p12:A", "p12:B", "corrupt"}, cert_pem : {"certA"},
            key_pem : {"keyA"}, password : {"exkeymo", "wrong"}]

\* the process has started and create_builder_from_env has not run yet
InitLoad ==
    /\ signer = NoSigner
    /\ disk \in Disks
    /\ load_error = ""
    /\ pc = [c \in Threads |-> "idle"]
    /\ input_zip = [c \in Threads |-> <<>>]
    /\ replacements = [c \in Threads |-> <<>>]
    /\ files = [c \in Threads |-> <<>>]
    /\ idx = [c \in Threads |-> 0]
    /\ manifest = [c \in Threads |-> ""]
    /\ sig_file = [c \in Threads |-> ""]
    /\ pkcs7_sig = [c \in Threads |-> NoSignature]
    /\ output = [c \in Threads |-> <<>>]
    /\ NothingServed
    /\ NoLayoutCalls
    /\ NoRequest
    /\ BuilderReady

\* create_builder_from_env where keylay.p12 exists: from_pkcs12 with the password
CreateBuilderFromPkcs12 ==
    /\ signer = NoSigner
    /\ load_error = ""
    /\ disk.p12 # ""
    /\ LET loaded == from_pkcs12(disk.p12, disk.password)
       IN IF loaded.ok
          THEN signer' = loaded.value /\ UNCHANGED load_error
          ELSE load_error' = loaded.error /\ UNCHANGED signer
    /\ UNCHANGED <<pc, input_zip, replacements, files, idx, manifest, sig_file,
                   pkcs7_sig, output, serveVars, disk,
                   layoutVars, requestVars, builderVars>>

\* create_builder_from_env without keylay.p12: from_pem_files, no password passed
CreateBuilderFromPem ==
    /\ signer = NoSigner
    /\ load_error = ""
    /\ disk.p12 = ""
    /\ LET loaded == from_pem_files(disk.cert_pem, disk.key_pem, "")
       IN IF loaded.ok
          THEN signer' = loaded.value /\ UNCHANGED load_error
          ELSE load_error' = loaded.error /\ UNCHANGED signer
    /\ UNCHANGED <<pc, input_zip, replacements, files, idx, manifest, sig_file,
                   pkcs7_sig, output, serveVars, disk,
                   layoutVars, requestVars, builderVars>>

\* build_apk signs once create_builder_from_env has returned a builder
SignApkBeginLoaded(c) ==
    /\ signer # NoSigner
    /\ SignApkBegin(c, ServedTemplates, ServedReplacementMaps)

\* the identity is loaded once, then builds are signed one at a time
NextLoad ==
    \/ CreateBuilderFromPkcs12
    \/ CreateBuilderFromPem
    \/ SignApkBeginLoaded(1)
    \/ CollectEntry(1)
    \/ CreateManifest(1)
    \/ CreateSignatureFile(1)
    \/ CreatePkcs7Signature(1)
    \/ WriteSignedApk(1)
    \/ SignApkReturn(1)

SpecLoad == InitLoad /\ [][NextLoad]_vars

\* the public key a certificate certifies, and the one a private key belongs to
certified_key(cert) == after(cert, "cert")

own_key(private_key) == after(private_key, "key")

\* the private key corresponds to the certificate
KeyMatchesCert(s) == certified_key(s.cert) = own_key(s.private_key)

\* C12: a signing identity that cannot be used is refused at load time: with
\* a private key that does not correspond to the certificate no ApkSigner is
\* constructed, so sign_apk never runs with a mismatched pair
C12_MismatchRejectedAtLoad ==
    /\ signer # NoSigner => KeyMatchesCert(signer)
    /\ \A c \in Threads : pc[c] # "idle" => signer # NoSigner /\ KeyMatchesCert(signer)

\* the archive written under a certificate the signing key does not belong to
C12_SignedWithMismatch ==
    /\ pc[1] = "done"
    /\ ~KeyMatchesCert(signer)
-----------------------------------------------------------------------------
(* layouts.py: paths of named layouts, user mappings applied to a base layout *)

MODIFICATIONS_COMMENT == "# Custom key mappings:\n"

\* sub in s
contains(s, sub) ==
    \E i \in 1..(Len(s) - Len(sub) + 1) : SubSeq(s, i, i + Len(sub) - 1) = sub

\* the white space the layouts are written with
Whitespace == {" ", "\n"}

\* s.rstrip()
RECURSIVE rstrip(_)
rstrip(s) ==
    IF Len(s) > 0 /\ SubSeq(s, Len(s), Len(s)) \in Whitespace
    THEN rstrip(SubSeq(s, 1, Len(s) - 1))
    ELSE s

\* s.lstrip()
RECURSIVE lstrip(_)
lstrip(s) ==
    IF Len(s) > 0 /\ SubSeq(s, 1, 1) \in Whitespace
    THEN lstrip(SubSeq(s, 2, Len(s)))
    ELSE s

\* s.strip()
strip(s) == lstrip(rstrip(s))

\* s.split(): the runs of characters between runs of blanks
split_whitespace(s) == SelectSeq(split(s, " "), LAMBDA part : part # "")

\* s.splitlines(), for lines that end in "\n": no empty last line
splitlines(s) ==
    LET pieces == split(s, "\n")
    IN IF s = "" THEN <<>>
       ELSE IF pieces[Len(pieces)] = "" THEN SubSeq(pieces, 1, Len(pieces) - 1)
       ELSE pieces

\* del d[k]
dict_del(d, k) == SelectSeq(d, LAMBDA item : item[1] # k)

\* parse_map_key returns None
NotParsed == [parsed |-> FALSE, is_usage |-> FALSE, code |-> "", key_code |-> ""]

\* parse_map_key(line): (is_usage, code, keyCode) or None
parse_map_key(line) ==
    LET trimmed == strip(line)
        parts == split_whitespace(line)
    IN IF ~startswith(trimmed, "map ") THEN NotParsed
       ELSE IF Len(parts) < 4 THEN NotParsed
       ELSE IF parts[2] # "key" THEN NotParsed
       ELSE IF parts[3] = "usage"
            THEN IF Len(parts) # 5 THEN NotParsed
                 ELSE [parsed |-> TRUE, is_usage |-> TRUE,
                       code |-> parts[4], key_code |-> parts[5]]
            ELSE IF Len(parts) # 4 THEN NotParsed
                 ELSE [parsed |-> TRUE, is_usage |-> FALSE,
                       code |-> parts[3], key_code |-> parts[4]]

\* full_code = f"usage {code}" if is_usage else code
full_code(p) == IF p.is_usage THEN "usage " \o p.code ELSE p.code

\* one pass of the loop over layout.splitlines(): acc is [result, remaining_mappings]
process_line(acc, line) ==
    LET p == parse_map_key(line)
    IN IF p.parsed /\ full_code(p) \in dict_keys(acc.remaining_mappings)
       THEN IF dict_get(acc.remaining_mappings, full_code(p)) = p.key_code
            THEN [result |-> Append(acc.result, line),
                  remaining_mappings |-> dict_del(acc.remaining_mappings, full_code(p))]
            ELSE [result |-> acc.result \o <<MODIFICATIONS_COMMENT, "# " \o line>>,
                  remaining_mappings |-> acc.remaining_mappings]
       ELSE [result |-> Append(acc.result, line),
             remaining_mappings |-> acc.remaining_mappings]

\* the loop over the lines, from the first to the last
RECURSIVE process_lines(_, _)
process_lines(acc, lines) ==
    IF Len(lines) = 0 THEN acc
    ELSE process_lines(process_line(acc, lines[1]), Tail(lines))

\* the lines appended for the mappings that remain
remaining_lines(remaining) ==
    IF Len(remaining) = 0 THEN <<>>
    ELSE <<"", rstrip(MODIFICATIONS_COMMENT)>>
         \o [i \in 1..Len(remaining) |->
                "map key " \o remaining[i][1] \o " " \o remaining[i][2]]

\* from_layout(layout, mappings)
from_layout(layout, mappings) ==
    IF Len(mappings) = 0 THEN layout
    ELSE LET start == [result |-> <<>>, remaining_mappings |-> mappings]
             acc == IF ~contains(layout, "map ")
                    THEN [result |-> <<layout>>, remaining_mappings |-> mappings]
                    ELSE LET done == process_lines(start, splitlines(layout))
                         IN [result |-> Append(done.result, ""),
                             remaining_mappings |-> done.remaining_mappings]
         IN join("\n", acc.result \o remaining_lines(acc.remaining_mappings))

\* the directory the package is installed in, and resources/ next to it
RESOURCES_DIR == <<"/", "srv", "keylay", "resources">>

\* the components of a path text: empty ones and "." are dropped
path_parts(text) == SelectSeq(split(text, "/"), LAMBDA part : part # "" /\ part # ".")

\* Path.__truediv__: an absolute right operand replaces the left one
truediv(base, text) ==
    IF startswith(text, "/") THEN <<"/">> \o path_parts(text)
    ELSE base \o path_parts(text)

\* get_kcm_path(name)
get_kcm_path(n) ==
    [called |-> TRUE, raised |-> "", path |-> truediv(truediv(RESOURCES_DIR, "kcm"), n)]

\* most lines of a base layout
MaxLines == 3

\* lines of base layouts
LayoutLines ==
    {"type OVERLAY", "map key 58 ESC", "map key 58 TAB", "map key usage 0x01 ESC"}

\* base layouts: every line ends in a newline
Layouts ==
    {join("", [i \in 1..Len(ls) |-> ls[i] \o "\n"]) :
        ls \in UNION {[1..n -> LayoutLines] : n \in 0..MaxLines}}

\* the user's mappings, as simple and complex requests build them
MappingDicts ==
    { <<>>,
      << <<"58", "ESC">> >>,
      << <<"58", "TAB">> >>,
      << <<"usage 0x01", "TAB">> >>,
      << <<"58", "ESC">>, <<"29", "TAB">> >> }

\* layout names a request may carry
LayoutNames ==
    {"keyboard_layout_german.kcm", "../keylay_key.pem", "/etc/passwd",
     "..\\keylay_key.pem", "sub/x.kcm"}

\* the arguments are chosen, nothing has been called
InitLayouts ==
    /\ layout_name \in LayoutNames
    /\ kcm_path = NoPath
    /\ base_layout \in Layouts
    /\ user_mappings \in MappingDicts
    /\ new_layout = NoLayout
    /\ signer \in Signers
    /\ pc = [c \in Threads |-> "idle"]
    /\ input_zip = [c \in Threads |-> <<>>]
    /\ replacements = [c \in Threads |-> <<>>]
    /\ files = [c \in Threads |-> <<>>]
    /\ idx = [c \in Threads |-> 0]
    /\ manifest = [c \in Threads |-> ""]
    /\ sig_file = [c \in Threads |-> ""]
    /\ pkcs7_sig = [c \in Threads |-> NoSignature]
    /\ output = [c \in Threads |-> <<>>]
    /\ NothingServed
    /\ disk = RepositoryDisk
    /\ load_error = ""
    /\ NoRequest
    /\ BuilderReady

\* the variables of signing, serving and loading
signVars == <<signer, pc, input_zip, replacements, files, idx,
              manifest, sig_file, pkcs7_sig, output>>

\* get_kcm_path is called with the name and returns
GetKcmPath ==
    /\ ~kcm_path.called
    /\ kcm_path' = get_kcm_path(layout_name)
    /\ UNCHANGED <<signVars, serveVars, loadVars, requestVars, builderVars, layout_name,
                   base_layout, user_mappings, new_layout>>

\* from_layout is called with the base layout and the mappings and returns
FromLayout ==
    /\ ~new_layout.called
    /\ new_layout' = [called |-> TRUE, text |-> from_layout(base_layout, user_mappings)]
    /\ UNCHANGED <<signVars, serveVars, loadVars, requestVars, builderVars, layout_name,
                   kcm_path, base_layout, user_mappings>>

NextLayouts == GetKcmPath \/ FromLayout

SpecLayouts == InitLayouts /\ [][NextLayouts]_vars

-----------------------------------------------------------------------------
(* Reading a layout back: the active 'map key' lines of a KCM text *)

\* the words of a line, for a reader of KCM files
words(line) == split_whitespace(line)

\* the line is a 'map key' line that is not commented out
Active(line) ==
    /\ Len(words(line)) \in {4, 5}
    /\ words(line)[1] = "map"
    /\ words(line)[2] = "key"
    /\ Len(words(line)) = 5 <=> words(line)[3] = "usage"

\* the code an active line maps, and the key code it maps it to
CodeOf(line) ==
    IF Len(words(line)) = 5 THEN words(line)[3] \o " " \o words(line)[4]
    ELSE words(line)[3]

KeyCodeOf(line) == words(line)[Len(words(line))]

\* the lines of the result of from_layout, and those of the base layout
ResultLines == split(new_layout.text, "\n")

BaseLines == splitlines(base_layout)

\* positions of the active lines of a text that map the code
ActiveFor(lines, code) ==
    {j \in 1..Len(lines) : Active(lines[j]) /\ CodeOf(lines[j]) = code}

\* the layout name could leave the kcm directory
Escaping(n) == n = ".." \/ contains(n, "/") \/ contains(n, "\\")

\* C13: get_kcm_path raises ValueError("Invalid layout name") and returns no
\* path for a name with a parent-directory component, a '/' or a backslash;
\* for a plain file name it returns a path inside resources/kcm that ends in
\* the name
C13_TraversalRejected ==
    kcm_path.called =>
        IF Escaping(layout_name)
        THEN /\ kcm_path.raised = "ValueError: Invalid layout name"
             /\ kcm_path.path = <<>>
        ELSE /\ kcm_path.raised = ""
             /\ kcm_path.path = RESOURCES_DIR \o <<"kcm", layout_name>>

\* C14: from_layout returns the layout unchanged for empty mappings; a base
\* line mapping a code of the mappings to another key code is emitted only
\* commented out and the user's line is added; a base line mapping it to the
\* same key code leaves that mapping line exactly once in the result; the
\* mappings of codes the base layout lacks are appended
C14_FromLayout ==
    new_layout.called =>
        /\ user_mappings = <<>> => new_layout.text = base_layout
        /\ \A i \in 1..Len(user_mappings) :
            LET code == user_mappings[i][1]
                key_code == user_mappings[i][2]
                user_line == "map key " \o code \o " " \o key_code
                is_line(l) == \E j \in 1..Len(ResultLines) : ResultLines[j] = l
            IN /\ \A b \in ActiveFor(BaseLines, code) :
                    IF KeyCodeOf(BaseLines[b]) # key_code
                    THEN /\ ~is_line(BaseLines[b])
                         /\ is_line("# " \o BaseLines[b])
                         /\ is_line(user_line)
                    ELSE Cardinality({j \in ActiveFor(ResultLines, code) :
                                        KeyCodeOf(ResultLines[j]) = key_code}) = 1
               /\ ActiveFor(BaseLines, code) = {} => is_line(user_line)

\* C17: for non-empty mappings the result of from_layout holds, for each code
\* of the mappings, exactly one active 'map key' line, and it maps the code to
\* the user's key code
C17_OneActiveLinePerCode ==
    (new_layout.called /\ user_mappings # <<>>) =>
        \A i \in 1..Len(user_mappings) :
            LET act == ActiveFor(ResultLines, user_mappings[i][1])
            IN /\ Cardinality(act) = 1
               /\ \A j \in act : KeyCodeOf(ResultLines[j]) = user_mappings[i][2]

-----------------------------------------------------------------------------
(* server.py: check_origin before every request, then the route *)

\* 64 * 1024 characters
MAX_LAYOUT_SIZE == 65536

\* a header value is truthy: present and not empty
truthy(header) == header # None /\ header[1] # ""

\* s.rstrip("/")
RECURSIVE rstrip_slash(_)
rstrip_slash(s) ==
    IF Len(s) > 0 /\ SubSeq(s, Len(s), Len(s)) = "/"
    THEN rstrip_slash(SubSeq(s, 1, Len(s) - 1))
    ELSE s

\* check_origin(): None lets the request through, else the response returned
check_origin(req) ==
    LET origin == req.origin
        referer == req.referer
        host == rstrip_slash(req.host_url)
    IN IF req.method # "POST" THEN NoReply
       ELSE IF origin = None /\ referer = None THEN NoReply
       ELSE IF truthy(origin) /\ ~startswith(origin[1], host)
            THEN [status |-> 403, text |-> "Cross-origin requests not allowed"]
       ELSE IF truthy(referer) /\ ~startswith(referer[1], host)
            THEN [status |-> 403, text |-> "Cross-origin requests not allowed"]
       ELSE NoReply

\* the URL the server is reached under
HostUrls == {"http://localhost:8080/"}

\* Origin headers a client may send, None for no header
OriginHeaders ==
    {None, <<"http://localhost:8080">>, <<"http://localhost:80801">>,
     <<"http://evil.example">>, <<"">>}

\* Referer headers a client may send, None for no header
RefererHeaders ==
    {None, <<"http://localhost:8080/simple.html">>,
     <<"http://localhost:8080.evil.example/attack.html">>,
     <<"http://evil.example/attack.html">>}

\* requests to the two routes that build packages
Requests ==
    [method : {"GET", "POST"}, path : {"/simple", "/complex"}, host_url : HostUrls,
     origin : OriginHeaders, referer : RefererHeaders,
     form_layout : {"", "type OVERLAY\n"}]

\* a request has arrived at a server whose builder is ready
InitRequest ==
    /\ request \in Requests
    /\ verdict = "pending"
    /\ reply = NoReply
    /\ build_calls = 0
    /\ signer \in Signers
    /\ pc = [c \in Threads |-> "idle"]
    /\ input_zip = [c \in Threads |-> <<>>]
    /\ replacements = [c \in Threads |-> <<>>]
    /\ files = [c \in Threads |-> <<>>]
    /\ idx = [c \in Threads |-> 0]
    /\ manifest = [c \in Threads |-> ""]
    /\ sig_file = [c \in Threads |-> ""]
    /\ pkcs7_sig = [c \in Threads |-> NoSignature]
    /\ output = [c \in Threads |-> <<>>]
    /\ NothingServed
    /\ disk = RepositoryDisk
    /\ load_error = ""
    /\ NoLayoutCalls
    /\ BuilderReady

\* before_request: check_origin returns a response, the route is not run
CheckOriginRejects ==
    /\ verdict = "pending"
    /\ check_origin(request) # NoReply
    /\ verdict' = "rejected"
    /\ reply' = check_origin(request)
    /\ UNCHANGED <<signVars, serveVars, loadVars, layoutVars, builderVars,
                   request, build_calls>>

\* before_request: check_origin returns None, the route runs next
CheckOriginPasses ==
    /\ verdict = "pending"
    /\ check_origin(request) = NoReply
    /\ verdict' = "passed"
    /\ UNCHANGED <<signVars, serveVars, loadVars, layoutVars, builderVars,
                   request, reply, build_calls>>

\* simple(): GET redirects, POST goes through build_apk_simple to serve_apk,
\* which answers 200 or, when build_apk raises, 500
Simple ==
    /\ verdict = "passed"
    /\ request.path = "/simple"
    /\ verdict' = "routed"
    /\ IF request.method = "GET"
       THEN /\ reply' = [status |-> 302, text |-> "/simple.html"]
            /\ UNCHANGED build_calls
       ELSE /\ build_calls' = build_calls + 1
            /\ \E status \in {200, 500} : reply' = [status |-> status, text |-> ""]
    /\ UNCHANGED <<signVars, serveVars, loadVars, layoutVars, builderVars, request>>

\* complex_route(): GET redirects, POST goes through build_apk_complex, which
\* refuses a missing or oversized layout and else calls serve_apk
ComplexRoute ==
    /\ verdict = "passed"
    /\ request.path = "/complex"
    /\ verdict' = "routed"
    /\ IF request.method = "GET"
       THEN /\ reply' = [status |-> 302, text |-> "/complex.html"]
            /\ UNCHANGED build_calls
       ELSE IF request.form_layout = ""
       THEN /\ reply' = [status |-> 400, text |-> "Missing layout"]
            /\ UNCHANGED build_calls
       ELSE IF Len(request.form_layout) > MAX_LAYOUT_SIZE
       THEN /\ reply' = [status |-> 400, text |-> "Layout content too large"]
            /\ UNCHANGED build_calls
       ELSE /\ build_calls' = build_calls + 1
            /\ \E status \in {200, 500} : reply' = [status |-> status, text |-> ""]
    /\ UNCHANGED <<signVars, serveVars, loadVars, layoutVars, builderVars, request>>

NextRequest == CheckOriginRejects \/ CheckOriginPasses \/ Simple \/ ComplexRoute

SpecRequest == InitRequest /\ [][NextRequest]_vars

\* the origin a URL belongs to: scheme, host and port
OriginOf(url) ==
    LET parts == split(url, "/")
    IN IF Len(parts) >= 3 THEN parts[1] \o "//" \o parts[3] ELSE url

\* the header names an origin other than the server's own
Foreign(header, req) == header # None /\ OriginOf(header[1]) # OriginOf(req.host_url)

\* the request comes from another origin, by its Origin header or, failing
\* that, by its Referer header
CrossOrigin(req) ==
    IF req.origin # None THEN Foreign(req.origin, req) ELSE Foreign(req.referer, req)

\* every header the request carries names the server's own origin
SameOrigin(req) ==
    /\ req.origin # None => ~Foreign(req.origin, req)
    /\ req.referer # None => ~Foreign(req.referer, req)

\* C15: a POST whose Origin header (or, failing that, Referer header) names
\* another origin than the server's is answered 403 and never reaches
\* builder.build_apk; a POST with neither header, or whose headers name the
\* server's own origin, is let through
C15_CrossOriginRejected ==
    (request.method = "POST" /\ verdict # "pending") =>
        /\ CrossOrigin(request) =>
            /\ verdict = "rejected"
            /\ reply.status = 403
            /\ build_calls = 0
        /\ SameOrigin(request) => verdict \in {"passed", "routed"}

-----------------------------------------------------------------------------
(* ApkBuilder: init() and build_apk() called on one shared builder *)

\* values of layout2 a caller passes: none, or the text of a second layout
SecondLayouts == {"", "type OVERLAY\n"}

\* ApkBuilder(signer): no template is loaded, nobody calls
InitBuilder ==
    /\ one_layout_apk = None
    /\ two_layout_apk = None
    /\ bpc = [c \in Threads |-> "idle"]
    /\ call = [c \in Threads |-> NoCall]
    /\ template = [c \in Threads |-> None]
    /\ signer \in Signers
    /\ pc = [c \in Threads |-> "idle"]
    /\ input_zip = [c \in Threads |-> <<>>]
    /\ replacements = [c \in Threads |-> <<>>]
    /\ files = [c \in Threads |-> <<>>]
    /\ idx = [c \in Threads |-> 0]
    /\ manifest = [c \in Threads |-> ""]
    /\ sig_file = [c \in Threads |-> ""]
    /\ pkcs7_sig = [c \in Threads |-> NoSignature]
    /\ output = [c \in Threads |-> <<>>]
    /\ NothingServed
    /\ disk = RepositoryDisk
    /\ load_error = ""
    /\ NoLayoutCalls
    /\ NoRequest

\* a thread calls builder.init()
CallInit(c) ==
    /\ bpc[c] = "idle"
    /\ call' = [call EXCEPT ![c] = [method |-> "init", layout2 |-> ""]]
    /\ bpc' = [bpc EXCEPT ![c] = "load_one"]
    /\ UNCHANGED <<signVars, serveVars, loadVars, layoutVars, requestVars,
                   one_layout_apk, two_layout_apk, template>>

\* a thread calls builder.build_apk(layout, layout2)
CallBuildApk(c) ==
    /\ bpc[c] = "idle"
    /\ \E layout2 \in SecondLayouts :
        call' = [call EXCEPT ![c] = [method |-> "build_apk", layout2 |-> layout2]]
    /\ bpc' = [bpc EXCEPT ![c] = "check"]
    /\ UNCHANGED <<signVars, serveVars, loadVars, layoutVars, requestVars,
                   one_layout_apk, two_layout_apk, template>>

\* build_apk: if self._one_layout_apk is None: self.init()
CheckInitialised(c) ==
    /\ bpc[c] = "check"
    /\ bpc' = [bpc EXCEPT ![c] = IF one_layout_apk = None THEN "load_one" ELSE "select"]
    /\ UNCHANGED <<signVars, serveVars, loadVars, layoutVars, requestVars,
                   one_layout_apk, two_layout_apk, call, template>>

\* init: self._one_layout_apk = (...).read_bytes()
LoadOneLayout(c) ==
    /\ bpc[c] = "load_one"
    /\ one_layout_apk' = ONE_LAYOUT_TEMPLATE
    /\ bpc' = [bpc EXCEPT ![c] = "load_two"]
    /\ UNCHANGED <<signVars, serveVars, loadVars, layoutVars, requestVars,
                   two_layout_apk, call, template>>

\* init: self._two_layout_apk = (...).read_bytes(), then back in the caller
LoadTwoLayouts(c) ==
    /\ bpc[c] = "load_two"
    /\ two_layout_apk' = TWO_LAYOUTS_TEMPLATE
    /\ bpc' = [bpc EXCEPT ![c] =
                IF call[c].method = "build_apk" THEN "select" ELSE "returned"]
    /\ UNCHANGED <<signVars, serveVars, loadVars, layoutVars, requestVars,
                   one_layout_apk, call, template>>

\* init: read_bytes() of either template file raises, the call is left
LoadFails(c) ==
    /\ bpc[c] \in {"load_one", "load_two"}
    /\ bpc' = [bpc EXCEPT ![c] = "raised"]
    /\ UNCHANGED <<signVars, serveVars, loadVars, layoutVars, requestVars,
                   one_layout_apk, two_layout_apk, call, template>>

\* build_apk: template = self._two_layout_apk if layout2 else self._one_layout_apk
SelectTemplate(c) ==
    /\ bpc[c] = "select"
    /\ template' = [template EXCEPT ![c] =
                        IF call[c].layout2 # "" THEN two_layout_apk ELSE one_layout_apk]
    /\ bpc' = [bpc EXCEPT ![c] = "sign"]
    /\ UNCHANGED <<signVars, serveVars, loadVars, layoutVars, requestVars,
                   one_layout_apk, two_layout_apk, call>>

\* build_apk: the template is opened as an archive and signed; bytes that are
\* no archive raise
SignTemplate(c) ==
    /\ bpc[c] = "sign"
    /\ bpc' = [bpc EXCEPT ![c] = IF template[c] = None THEN "raised" ELSE "returned"]
    /\ UNCHANGED <<signVars, serveVars, loadVars, layoutVars, requestVars,
                   one_layout_apk, two_layout_apk, call, template>>

\* the call is over, by return or by exception
LeaveBuilder(c) ==
    /\ bpc[c] \in {"returned", "raised"}
    /\ bpc' = [bpc EXCEPT ![c] = "idle"]
    /\ call' = [call EXCEPT ![c] = NoCall]
    /\ template' = [template EXCEPT ![c] = None]
    /\ UNCHANGED <<signVars, serveVars, loadVars, layoutVars, requestVars,
                   one_layout_apk, two_layout_apk>>

\* threads call init() and build_apk() on the one builder, their steps interleaved
NextBuilder ==
    \E c \in Threads :
        \/ CallInit(c)
        \/ CallBuildApk(c)
        \/ CheckInitialised(c)
        \/ LoadOneLayout(c)
        \/ LoadTwoLayouts(c)
        \/ LoadFails(c)
        \/ SelectTemplate(c)
        \/ SignTemplate(c)
        \/ LeaveBuilder(c)

SpecBuilder == InitBuilder /\ [][NextBuilder]_vars

\* C16: whenever build_apk has selected a template to sign, it is the loaded
\* two-layout template if layout2 is non-empty and the loaded one-layout
\* template otherwise, never an unloaded (None) one
C16_SelectedTemplateLoaded ==
    \A c \in Threads :
        bpc[c] = "sign" =>
            /\ template[c] # None
            /\ template[c] = IF call[c].layout2 # "" THEN TWO_LAYOUTS_TEMPLATE
                             ELSE ONE_LAYOUT_TEMPLATE

====
